---------------------------- MODULE Spec2Model ----------------------------
(***************************************************************************)
(* A model of osmium/geom/tile.hpp: the tile arithmetic of libosmium       *)
(* (num_tiles_in_zoom, tile_extent_in_zoom, mercx_to_tilex,                *)
(* mercy_to_tiley), the Tile value type with its three constructors,       *)
(* valid() and the comparison operators.                                   *)
(*                                                                         *)
(* The functions are pure.  The state machine is a caller: Init draws the  *)
(* build (NDEBUG or not) and the arguments, and every action applies one   *)
(* function of the header to them and records what it returned.  The       *)
(* conversion of a double that int32_t cannot represent is undefined: each *)
(* call draws what it yields among what the conversion instructions and    *)
(* the compiler's constant folding produce.                                *)
(*                                                                         *)
(* Numbers.  TLC's integers are 32-bit signed, which is exactly int32_t.   *)
(* A uint32_t and the 53-bit significand of a double do not fit, so both   *)
(* are held as a pair <<hi, lo>> that stands for hi * 2^27 + lo.  A double *)
(* is held as sign, significand and exponent, and + - / on doubles round   *)
(* to nearest, ties to even, as IEEE 754 binary64 does.                    *)
(***************************************************************************)
EXTENDS Integers, Sequences, FiniteSets

(***************************************************************************)
(* Wide naturals: <<hi, lo>> is hi * Base + lo with 0 <= lo < Base.        *)
(***************************************************************************)
Base == 2^27

WZero == <<0, 0>>

WOne == <<0, 1>>

WOfNat(n) == <<n \div Base, n % Base>>

WLt(a, b) == a[1] < b[1] \/ (a[1] = b[1] /\ a[2] < b[2])

WLe(a, b) == ~WLt(b, a)

WAdd(a, b) ==
    LET lo == a[2] + b[2]
    IN  <<a[1] + b[1] + (lo \div Base), lo % Base>>

\* a - b for a >= b
WSub(a, b) ==
    LET lo == a[2] - b[2]
    IN  IF lo < 0 THEN <<a[1] - b[1] - 1, lo + Base>> ELSE <<a[1] - b[1], lo>>

WDouble(a) == WAdd(a, a)

WOdd(a) == a[2] % 2 = 1

\* every wide natural that is shifted or measured is below 2^MaxBits
MaxBits == 2 * 27 + 3

\* a * 2^k, for a result below 2^58 (so a[1] = 0 when k >= 27)
WShl(a, k) ==
    IF k >= 27 THEN <<a[2] * 2^(k - 27), 0>>
    ELSE LET cut == 2^(27 - k)
         IN  <<a[1] * 2^k + (a[2] \div cut), (a[2] % cut) * 2^k>>

\* a \div 2^k
WShr(a, k) ==
    IF k > MaxBits THEN WZero
    ELSE IF k >= 27 THEN <<0, a[1] \div 2^(k - 27)>>
    ELSE <<a[1] \div 2^k, (a[1] % 2^k) * 2^(27 - k) + (a[2] \div 2^k)>>

\* whether a bit of a below bit k is set
WLowBits(a, k) == a # WShl(WShr(a, k), k)

\* a shifted right by k bits, the lowest bit of the result set when a bit
\* shifted out was set (the "sticky" shift of a floating-point adder)
WShrJam(a, k) ==
    IF k > MaxBits THEN (IF a = WZero THEN WZero ELSE WOne)
    ELSE LET h == WShr(a, k)
         IN  IF WLowBits(a, k) /\ ~WOdd(h) THEN WAdd(h, WOne) ELSE h

\* the number of bits of v: the least n with v < 2^n, for 0 <= v < 2^30
NBitLen(v) == CHOOSE n \in 0..30 : v < 2^n /\ (n = 0 \/ 2^(n - 1) <= v)

\* the number of bits of a, for a below 2^MaxBits
WBitLen(a) == IF a[1] = 0 THEN NBitLen(a[2]) ELSE 27 + NBitLen(a[1])

(***************************************************************************)
(* uint32_t: a wide natural below 2^32 = 32 * Base; arithmetic wraps.      *)
(***************************************************************************)
U32(n) == WOfNat(n)

UINT32_MAX == <<31, Base - 1>>

U32Wrap(w) == <<w[1] % 32, w[2]>>

\* a << k on uint32_t, for a shift count 0 <= k < 32
U32Shl(a, k) == U32Wrap(WShl(a, k))

U32Sub(a, b) == IF WLe(b, a) THEN WSub(a, b) ELSE WSub(WAdd(a, <<32, 0>>), b)

\* the value of a uint32_t below 2^31 as an integer
U32Val(u) == u[1] * Base + u[2]

INT32_MAX == 2147483647

INT32_MIN == -INT32_MAX - 1

\* uint32_t -> int32_t (the value modulo 2^32)
U32ToInt32(u) == IF u[1] < 16 THEN U32Val(u) ELSE (u[1] - 32) * Base + u[2]

\* static_cast<uint32_t>(int32_t) (the value modulo 2^32)
Int32ToU32(i) == <<(i \div Base) % 32, i % Base>>

(***************************************************************************)
(* double: [cls, neg, m, e].  A finite value is (-1)^neg * m * 2^e with    *)
(* m = 0 or 2^52 <= m < 2^53.  The exponent is not bounded: no value of    *)
(* this model comes near the overflow or the subnormal range of binary64.  *)
(* The sign of a zero is not kept (it does not survive the conversion to   *)
(* an integer).                                                            *)
(***************************************************************************)
DBL_MANT_DIG == 53

Two52 == WShl(WOne, DBL_MANT_DIG - 1)

Two53 == WShl(WOne, DBL_MANT_DIG)

DblZero == [cls |-> "fin", neg |-> FALSE, m |-> WZero, e |-> 0]

DblNaN == [cls |-> "nan", neg |-> FALSE, m |-> WZero, e |-> 0]

DblInf(neg) == [cls |-> "inf", neg |-> neg, m |-> WZero, e |-> 0]

IsZero(a) == a.cls = "fin" /\ a.m = WZero

\* m scaled up to 53 bits (exact): <<significand, exponent>>
NormLeft(m, e) ==
    LET k == DBL_MANT_DIG - WBitLen(m)
    IN  <<WShl(m, k), e - k>>

\* m cut to 53 bits; g is the last bit dropped, s whether a bit dropped
\* before it was set
RoundShift(m, e, sticky) ==
    LET k == WBitLen(m) - DBL_MANT_DIG
    IN  IF k = 0 THEN [m |-> m, e |-> e, g |-> FALSE, s |-> sticky]
        ELSE [m |-> WShr(m, k), e |-> e + k, g |-> WOdd(WShr(m, k - 1)),
              s |-> sticky \/ WLowBits(m, k - 1)]

\* the double nearest to (-1)^neg * (m + a fraction, nonzero iff sticky) * 2^e,
\* ties to even
DblRound(neg, m, e, sticky) ==
    IF m = WZero THEN DblZero
    ELSE IF WLt(m, Two52) THEN
        LET n == NormLeft(m, e)
        IN  [cls |-> "fin", neg |-> neg, m |-> n[1], e |-> n[2]]
    ELSE
        LET r  == RoundShift(m, e, sticky)
            up == r.g /\ (r.s \/ WOdd(r.m))
            m1 == IF up THEN WAdd(r.m, WOne) ELSE r.m
        IN  IF m1 = Two53
            THEN [cls |-> "fin", neg |-> neg, m |-> Two52, e |-> r.e + 1]
            ELSE [cls |-> "fin", neg |-> neg, m |-> m1, e |-> r.e]

DblNeg(a) == IF a.cls = "nan" \/ IsZero(a) THEN a ELSE [a EXCEPT !.neg = ~a.neg]

\* a + b for finite nonzero a, b with a.e >= b.e: three guard bits, the
\* smaller operand shifted right with a sticky bit
AddAligned(a, b) ==
    LET A  == WShl(a.m, 3)
        B  == WShrJam(WShl(b.m, 3), a.e - b.e)
        e0 == a.e - 3
    IN  IF a.neg = b.neg THEN DblRound(a.neg, WAdd(A, B), e0, FALSE)
        ELSE IF WLt(B, A) THEN DblRound(a.neg, WSub(A, B), e0, FALSE)
        ELSE DblRound(b.neg, WSub(B, A), e0, FALSE)

\* the double operator +
DblAdd(a, b) ==
    IF a.cls = "nan" \/ b.cls = "nan" THEN DblNaN
    ELSE IF a.cls = "inf" THEN (IF b.cls = "inf" /\ a.neg # b.neg THEN DblNaN ELSE a)
    ELSE IF b.cls = "inf" THEN b
    ELSE IF IsZero(a) THEN b
    ELSE IF IsZero(b) THEN a
    ELSE IF a.e >= b.e THEN AddAligned(a, b) ELSE AddAligned(b, a)

\* the double operator - (binary)
DblSub(a, b) == DblAdd(a, DblNeg(b))

\* long division: from qr = <<q, r>> with r < d, n more bits of the quotient
\* r / d appended to q, and the remainder
RECURSIVE DivBits(_, _, _)
DivBits(qr, d, n) ==
    IF n = 0 THEN qr
    ELSE LET r2 == WDouble(qr[2])
         IN  IF WLe(d, r2)
             THEN DivBits(<<WAdd(WDouble(qr[1]), WOne), WSub(r2, d)>>, d, n - 1)
             ELSE DivBits(<<WDouble(qr[1]), r2>>, d, n - 1)

\* the double operator /
DblDiv(a, b) ==
    IF a.cls = "nan" \/ b.cls = "nan" THEN DblNaN
    ELSE IF a.cls = "inf" THEN (IF b.cls = "inf" THEN DblNaN ELSE DblInf(a.neg # b.neg))
    ELSE IF b.cls = "inf" THEN DblZero
    ELSE IF IsZero(b) THEN (IF IsZero(a) THEN DblNaN ELSE DblInf(a.neg # b.neg))
    ELSE IF IsZero(a) THEN DblZero
    ELSE IF b.m = Two52      \* a power of two: exact, only the exponent changes
         THEN [cls |-> "fin", neg |-> a.neg # b.neg, m |-> a.m,
               e |-> a.e - b.e - (DBL_MANT_DIG - 1)]
    ELSE LET ge == WLe(b.m, a.m)
             qr == DivBits(IF ge THEN <<WOne, WSub(a.m, b.m)>> ELSE <<WZero, a.m>>,
                           b.m, DBL_MANT_DIG + 2)
         IN  DblRound(a.neg # b.neg, qr[1], a.e - b.e - (DBL_MANT_DIG + 2),
                      qr[2] # WZero)

\* a * 2 (exact: only the exponent changes)
DblTimes2(a) == IF a.cls = "fin" /\ ~IsZero(a) THEN [a EXCEPT !.e = a.e + 1] ELSE a

\* uint32_t -> double (exact)
DblFromU32(u) == DblRound(FALSE, u, 0, FALSE)

(***************************************************************************)
(* The state: the build, the caller's script with its arguments, and what   *)
(* the calls made so far returned.                                          *)
(***************************************************************************)
VARIABLES
    ndebug,     \* the build: TRUE when NDEBUG is defined (assert does nothing)
    cvt,        \* what static_cast<int32_t>(double) yields in the next call
                \* for an operand int32_t cannot represent (undefined in C++):
                \* "indefinite" (the x86 instruction: always INT32_MIN) or
                \* "saturate" (the AArch64 instruction, and the compiler's
                \* constant folding: the nearest int32_t, 0 for NaN).  One
                \* build can hold both, so every call draws it anew
    test,       \* which functions the caller exercises
    args,       \* the arguments the caller passes, a record
    ret         \* what the calls made so far returned, a record; a result not
                \* yet there is <<>>, a result v is <<v>>

vars == <<ndebug, cvt, test, args, ret>>

(***************************************************************************)
(* osmium/geom/mercator_projection.hpp (not in src/): 20037508.34, the     *)
(* double nearest to it, 5378777688351703 * 2^-28.                         *)
(***************************************************************************)
max_coordinate_epsg3857 ==
    [cls |-> "fin", neg |-> FALSE, m |-> <<40075016, 91268055>>, e |-> -28]

\* clamp without its upper bound, a variant C2_Boundaries tells apart
clamp_lower_only(value, min, max) == IF value < min THEN min ELSE value

\* detail::clamp<int32_t>
clamp(value, min, max) ==
    IF value < min THEN min ELSE (IF max < value THEN max ELSE value)

\* the shift done in 16 bits, a variant C8_NumTiles tells apart
num_tiles_in_zoom_16bit(zoom) ==
    LET n == WShl(WOne, U32Val(zoom)) IN <<0, n[2] % 2^16>>

\* 1U << zoom; the shift is defined for zoom < 32 only
num_tiles_in_zoom(zoom) == U32Shl(U32(1), U32Val(zoom))

tile_extent_in_zoom(zoom) ==
    DblDiv(DblTimes2(max_coordinate_epsg3857), DblFromU32(num_tiles_in_zoom(zoom)))

\* whether d, truncated toward zero, is a value of int32_t
FitsInt32(d) ==
    /\ d.cls = "fin"
    /\ \/ IsZero(d)
       \/ /\ d.e < 0
          /\ LET t == WShr(d.m, -d.e)
             IN  WLt(t, <<16, 0>>) \/ (d.neg /\ t = <<16, 0>>)

\* static_cast<int32_t>(double): truncation toward zero; undefined when the
\* truncated value is no int32_t, and then what this call's conversion yields
DblToInt32(d) ==
    IF FitsInt32(d) THEN
        IF IsZero(d) THEN 0
        ELSE LET t == WShr(d.m, -d.e)
             IN  IF ~d.neg THEN U32Val(t)
                 ELSE IF t = <<16, 0>> THEN INT32_MIN ELSE -U32Val(t)
    ELSE IF cvt = "indefinite" THEN INT32_MIN
    ELSE IF d.cls = "nan" THEN 0
    ELSE IF d.neg THEN INT32_MIN ELSE INT32_MAX

\* the bound without the - 1, a variant C10_ConstructedValid tells apart
clamp_max_off_by_one(zoom) == U32ToInt32(num_tiles_in_zoom(zoom))

\* the upper bound handed to clamp<int32_t>: num_tiles_in_zoom(zoom) - 1,
\* computed in uint32_t and converted to int32_t
clamp_max(zoom) == U32ToInt32(U32Sub(num_tiles_in_zoom(zoom), U32(1)))

\* the operand of the conversion in mercx_to_tilex
mercx_quotient(zoom, x) ==
    DblDiv(DblAdd(x, max_coordinate_epsg3857), tile_extent_in_zoom(zoom))

\* columns counted from the right, a variant C3_MercxMonotone tells apart
mercx_to_tilex_mirrored(zoom, x) ==
    Int32ToU32(clamp(DblToInt32(DblDiv(DblSub(max_coordinate_epsg3857, x),
                                       tile_extent_in_zoom(zoom))),
                     0, clamp_max(zoom)))

mercx_to_tilex(zoom, x) ==
    Int32ToU32(clamp(DblToInt32(mercx_quotient(zoom, x)), 0, clamp_max(zoom)))

\* the operand of the conversion in mercy_to_tiley
mercy_quotient(zoom, y) ==
    DblDiv(DblSub(max_coordinate_epsg3857, y), tile_extent_in_zoom(zoom))

\* rows counted from the bottom, a variant C4_MercyAntitone tells apart
mercy_to_tiley_upward(zoom, y) ==
    Int32ToU32(clamp(DblToInt32(DblDiv(DblAdd(y, max_coordinate_epsg3857),
                                       tile_extent_in_zoom(zoom))),
                     0, clamp_max(zoom)))

mercy_to_tiley(zoom, y) ==
    Int32ToU32(clamp(DblToInt32(mercy_quotient(zoom, y)), 0, clamp_max(zoom)))

(***************************************************************************)
(* struct Tile: a record [x, y, z] of uint32_t.                            *)
(***************************************************************************)
max_zoom == 30

\* x <= max and y <= max, a variant C5_ValidIff tells apart
Tile_valid_inclusive(t) ==
    IF WLt(U32(max_zoom), t.z) THEN FALSE
    ELSE LET max == num_tiles_in_zoom(t.z)
         IN  WLe(t.x, max) /\ WLe(t.y, max)

\* Tile::valid()
Tile_valid(t) ==
    IF WLt(U32(max_zoom), t.z) THEN FALSE
    ELSE LET max == num_tiles_in_zoom(t.z)
         IN  WLt(t.x, max) /\ WLt(t.y, max)

\* the shift counts Tile::valid() evaluates 1U << . with
Tile_valid_shifts(t) == IF WLt(U32(max_zoom), t.z) THEN {} ELSE {t.z}

\* operator==
operator_eq(lhs, rhs) == lhs.z = rhs.z /\ lhs.x = rhs.x /\ lhs.y = rhs.y

\* operator!=
operator_ne(lhs, rhs) == ~operator_eq(lhs, rhs)

\* x compared before z, a variant C6_StrictTotalOrder tells apart
operator_lt_x_first(lhs, rhs) ==
    IF WLt(lhs.x, rhs.x) THEN TRUE
    ELSE IF WLt(rhs.x, lhs.x) THEN FALSE
    ELSE IF WLt(lhs.z, rhs.z) THEN TRUE
    ELSE IF WLt(rhs.z, lhs.z) THEN FALSE
    ELSE WLt(lhs.y, rhs.y)

\* operator<
operator_lt(lhs, rhs) ==
    IF WLt(lhs.z, rhs.z) THEN TRUE
    ELSE IF WLt(rhs.z, lhs.z) THEN FALSE
    ELSE IF WLt(lhs.x, rhs.x) THEN TRUE
    ELSE IF WLt(rhs.x, lhs.x) THEN FALSE
    ELSE WLt(lhs.y, rhs.y)

(***************************************************************************)
(* osmium/osm/location.hpp, osmium/geom/coordinates.hpp and                *)
(* osmium/geom/mercator_projection.hpp are not in src/; what the           *)
(* constructors use of them is modelled from their documented behaviour.   *)
(* A Location is [x, y] in units of 10^-7 degrees (int32_t each), a        *)
(* Coordinates is [x, y] of double.                                        *)
(***************************************************************************)
Location_valid(location) ==
    /\ location.x >= -1800000000 /\ location.x <= 1800000000
    /\ location.y >= -900000000  /\ location.y <= 900000000

Coordinates_valid(coordinates) ==
    coordinates.x.cls # "nan" /\ coordinates.y.cls # "nan"

\* Location(): both fields undefined_coordinate
Location_undefined == [x |-> INT32_MAX, y |-> INT32_MAX]

\* Coordinates(): both fields NaN
Coordinates_invalid == [x |-> DblNaN, y |-> DblNaN]

\* the projection, tabulated (doubles computed with earth radius 6378137):
\* the origin, a city, a point well inside the bounds, the two corners of
\* the valid range at latitude +-85.0511288 (their projections lie just
\* outside the bounds) and a point 10^-7 degrees from each pole (far
\* outside: y is about +-1.33e8)
ProjectionTable ==
    << [location |-> [x |-> 0, y |-> 0],
        mercator |-> [x |-> DblZero, y |-> DblZero]],
       [location |-> [x |-> 99931200, y |-> 535507800],
        mercator |-> [x |-> [cls |-> "fin", neg |-> FALSE,
                             m |-> <<35597728, 128144979>>, e |-> -32],
                      y |-> [cls |-> "fin", neg |-> FALSE,
                             m |-> <<56684274, 68896471>>, e |-> -30]]],
       [location |-> [x |-> 1799999999, y |-> 850500000],
        mercator |-> [x |-> [cls |-> "fin", neg |-> FALSE,
                             m |-> <<40075016, 89028577>>, e |-> -28],
                      y |-> [cls |-> "fin", neg |-> FALSE,
                             m |-> <<40072103, 112564862>>, e |-> -28]]],
       [location |-> [x |-> 1800000000, y |-> 850511288],
        mercator |-> [x |-> [cls |-> "fin", neg |-> FALSE,
                             m |-> <<40075016, 92016787>>, e |-> -28],
                      y |-> [cls |-> "fin", neg |-> FALSE,
                             m |-> <<40075016, 99011623>>, e |-> -28]]],
       [location |-> [x |-> -1800000000, y |-> -850511288],
        mercator |-> [x |-> [cls |-> "fin", neg |-> TRUE,
                             m |-> <<40075016, 92016787>>, e |-> -28],
                      y |-> [cls |-> "fin", neg |-> TRUE,
                             m |-> <<40075016, 99011621>>, e |-> -28]]],
       [location |-> [x |-> 0, y |-> 899999999],
        mercator |-> [x |-> DblZero,
                      y |-> [cls |-> "fin", neg |-> FALSE,
                             m |-> <<66522277, 120752302>>, e |-> -26]]],
       [location |-> [x |-> 0, y |-> -899999999],
        mercator |-> [x |-> DblZero,
                      y |-> [cls |-> "fin", neg |-> TRUE,
                             m |-> <<66522277, 120752302>>, e |-> -26]]] >>

\* lonlat_to_mercator(location), for a valid location
lonlat_to_mercator(location) ==
    LET row == CHOOSE i \in DOMAIN ProjectionTable :
                   ProjectionTable[i].location = location
    IN  ProjectionTable[row].mercator

(***************************************************************************)
(* The three constructors.  Each yields how the call ended and, when it    *)
(* returned, the tile.  assert(c) does nothing when NDEBUG is defined and  *)
(* aborts the process otherwise when c is false.                           *)
(***************************************************************************)
Returned(t) == [status |-> "returned", tile |-> <<t>>]

Aborted == [status |-> "aborted", tile |-> <<>>]

\* osmium::invalid_location, thrown by Location::lon() and lat() of an
\* invalid location, which lonlat_to_mercator calls
Threw == [status |-> "threw", tile |-> <<>>]

\* Tile(uint32_t zoom, uint32_t tx, uint32_t ty)
Tile_index(zoom, tx, ty) ==
    LET t == [x |-> tx, y |-> ty, z |-> zoom]
    IN  IF ~ndebug /\ ~WLe(zoom, U32(max_zoom)) THEN Aborted
        ELSE IF ~ndebug /\ ~WLt(t.x, num_tiles_in_zoom(zoom)) THEN Aborted
        ELSE IF ~ndebug /\ ~WLt(t.y, num_tiles_in_zoom(zoom)) THEN Aborted
        ELSE Returned(t)

\* Tile(uint32_t zoom, const osmium::geom::Coordinates& coordinates)
Tile_coordinates(zoom, coordinates) ==
    IF ~ndebug /\ ~WLe(zoom, U32(max_zoom)) THEN Aborted
    ELSE Returned([x |-> mercx_to_tilex(zoom, coordinates.x),
                   y |-> mercy_to_tiley(zoom, coordinates.y),
                   z |-> zoom])

\* Tile(uint32_t zoom, const osmium::Location& location)
Tile_location(zoom, location) ==
    IF ~ndebug /\ ~WLe(zoom, U32(max_zoom)) THEN Aborted
    ELSE IF ~ndebug /\ ~Location_valid(location) THEN Aborted
    ELSE IF ~Location_valid(location) THEN Threw
    ELSE LET coordinates == lonlat_to_mercator(location)
         IN  Returned([x |-> mercx_to_tilex(zoom, coordinates.x),
                       y |-> mercy_to_tiley(zoom, coordinates.y),
                       z |-> zoom])

(***************************************************************************)
(* The arguments the caller draws.                                         *)
(***************************************************************************)
\* how many times the bound is halved for the samples inside the bounds
HalvingSteps == 2

\* how many times the width of the projection is added for the samples
\* beyond the bounds
FarSteps == 2

\* max_coordinate_epsg3857 / 2^n
Halved(n) == DblDiv(max_coordinate_epsg3857, DblFromU32(U32(2^n)))

\* max_coordinate_epsg3857 + 2 * max_coordinate_epsg3857, k times over
RECURSIVE Beyond(_)
Beyond(k) ==
    IF k = 0 THEN max_coordinate_epsg3857
    ELSE DblAdd(Beyond(k - 1), DblTimes2(max_coordinate_epsg3857))

\* the doubles next to max_coordinate_epsg3857
JustBelowMax == [max_coordinate_epsg3857 EXCEPT !.m = WSub(@, WOne)]

JustAboveMax == [max_coordinate_epsg3857 EXCEPT !.m = WAdd(@, WOne)]

Magnitudes ==
    [n \in 1..(HalvingSteps + 1) |-> Halved(n - 1)]
        \o [k \in 1..FarSteps |-> Beyond(k)]
        \o <<JustBelowMax, JustAboveMax>>

\* the projected coordinates passed: 0, the bounds, fractions of them, their
\* neighbours, values far beyond them, NaN and the infinities
Xs ==
    <<DblZero>> \o Magnitudes
        \o [i \in 1..Len(Magnitudes) |-> DblNeg(Magnitudes[i])]
        \o <<DblNaN, DblInf(FALSE), DblInf(TRUE)>>

\* the corners of the projection
Corners ==
    LET ends == {max_coordinate_epsg3857, DblNeg(max_coordinate_epsg3857)}
    IN  [x : ends, y : ends]

\* the coordinate pairs passed: every sample as x with the next one as y,
\* the corners, and Coordinates()
CoordinatePairs ==
    {[x |-> Xs[i], y |-> Xs[(i % Len(Xs)) + 1]] : i \in 1..Len(Xs)}
        \cup Corners \cup {Coordinates_invalid}

\* the locations passed: those of the table and Location()
Locations ==
    {ProjectionTable[i].location : i \in DOMAIN ProjectionTable}
        \cup {Location_undefined}

\* zoom levels for which 1U << zoom is defined
Zooms == {U32(z) : z \in 0..31}

\* zoom levels passed to the constructors that shift: beyond 31 only where
\* assert(zoom <= max_zoom) stops the call before the undefined shift
ZoomsFor(nd) == IF nd THEN Zooms ELSE Zooms \cup {U32(32), UINT32_MAX}

\* tile fields around the limits of the zoom levels 0, 1, 2, 29, 30 and 31
Fields ==
    {U32(n) : n \in {0, 1, 2, 3, 4, 2^29 - 1, 2^29, 2^30 - 1, 2^30}}
        \cup {<<16, 0>>, UINT32_MAX}

FieldZooms == {U32(z) : z \in {0, 1, 2, 29, 30, 31, 32}} \cup {<<16, 0>>, UINT32_MAX}

\* the tiles compared: three of them, to see transitivity
OrderedTiles ==
    [x : {U32(0), U32(1), UINT32_MAX}, y : {U32(0), U32(1)}, z : {U32(1), U32(2)}]

Conversions == {"indefinite", "saturate"}

(***************************************************************************)
(* The initial states: one script, its arguments and nothing returned yet. *)
(* ndebug and cvt are left at one value where no function of the script    *)
(* reads them.                                                             *)
(***************************************************************************)
InitExtent ==
    /\ test = "extent"
    /\ ndebug = TRUE /\ cvt = "indefinite"
    /\ \E zoom \in Zooms : args = [zoom |-> zoom]
    /\ ret = [num_tiles |-> <<>>, tile_extent |-> <<>>]

InitMerc ==
    /\ test \in {"mercx", "mercy"}
    /\ ndebug = TRUE /\ cvt \in Conversions
    /\ \E zoom \in Zooms : args = [zoom |-> zoom]
    /\ ret = [calls |-> <<>>]

InitIndex ==
    /\ test = "index"
    /\ ndebug \in BOOLEAN /\ cvt = "indefinite"
    /\ \E zoom \in FieldZooms, tx \in Fields, ty \in Fields :
           args = [zoom |-> zoom, tx |-> tx, ty |-> ty]
    /\ ret = [from_index |-> <<>>]

InitLocation ==
    /\ test = "location"
    /\ ndebug \in BOOLEAN /\ cvt \in Conversions
    /\ \E zoom \in ZoomsFor(ndebug), location \in Locations :
           args = [zoom |-> zoom, location |-> location]
    /\ ret = [from_location |-> <<>>, coordinates |-> <<>>,
              from_coordinates |-> <<>>]

InitCoordinates ==
    /\ test = "coordinates"
    /\ ndebug \in BOOLEAN /\ cvt \in Conversions
    /\ \E zoom \in ZoomsFor(ndebug), coordinates \in CoordinatePairs :
           args = [zoom |-> zoom, coordinates |-> coordinates]
    /\ ret = [from_coordinates |-> <<>>]

InitValid ==
    /\ test = "valid"
    /\ ndebug = TRUE /\ cvt = "indefinite"
    /\ \E z \in FieldZooms, x \in Fields, y \in Fields :
           args = [tile |-> [x |-> x, y |-> y, z |-> z]]
    /\ ret = [valid |-> <<>>, shifts |-> {}]

InitOrder ==
    /\ test = "order"
    /\ ndebug = TRUE /\ cvt = "indefinite"
    /\ \E a \in OrderedTiles, b \in OrderedTiles, c \in OrderedTiles :
           args = [tiles |-> <<a, b, c>>]
    /\ ret = [lt |-> <<>>, eq |-> <<>>, ne |-> <<>>]

Init ==
    \/ InitExtent
    \/ InitMerc
    \/ InitIndex
    \/ InitLocation
    \/ InitCoordinates
    \/ InitValid
    \/ InitOrder

(***************************************************************************)
(* The calls.                                                              *)
(***************************************************************************)
\* a call that converts leaves the next call's conversion open
Reconvert == cvt' \in Conversions

NumTilesInZoom ==
    /\ test = "extent"
    /\ ret.num_tiles = <<>>
    /\ ret' = [ret EXCEPT !.num_tiles = <<num_tiles_in_zoom(args.zoom)>>]
    /\ UNCHANGED <<ndebug, cvt, test, args>>

TileExtentInZoom ==
    /\ test = "extent"
    /\ ret.tile_extent = <<>>
    /\ ret' = [ret EXCEPT !.tile_extent = <<tile_extent_in_zoom(args.zoom)>>]
    /\ UNCHANGED <<ndebug, cvt, test, args>>

\* mercx_to_tilex(zoom, x) for the next sample x: what it returned, whether
\* the conversion to int32_t was defined, the number of tiles it computed
\* and the bound it clamped to
MercxToTilex ==
    /\ test = "mercx"
    /\ Len(ret.calls) < Len(Xs)
    /\ LET x == Xs[Len(ret.calls) + 1]
       IN  ret' = [ret EXCEPT !.calls = Append(@,
                      [tile    |-> mercx_to_tilex(args.zoom, x),
                       defined |-> FitsInt32(mercx_quotient(args.zoom, x)),
                       num_tiles |-> num_tiles_in_zoom(args.zoom),
                       max     |-> clamp_max(args.zoom)])]
    /\ Reconvert
    /\ UNCHANGED <<ndebug, test, args>>

\* mercy_to_tiley(zoom, y) for the next sample y
MercyToTiley ==
    /\ test = "mercy"
    /\ Len(ret.calls) < Len(Xs)
    /\ LET y == Xs[Len(ret.calls) + 1]
       IN  ret' = [ret EXCEPT !.calls = Append(@,
                      [tile    |-> mercy_to_tiley(args.zoom, y),
                       defined |-> FitsInt32(mercy_quotient(args.zoom, y)),
                       num_tiles |-> num_tiles_in_zoom(args.zoom),
                       max     |-> clamp_max(args.zoom)])]
    /\ Reconvert
    /\ UNCHANGED <<ndebug, test, args>>

TileFromIndex ==
    /\ test = "index"
    /\ ret.from_index = <<>>
    /\ ret' = [ret EXCEPT
                  !.from_index = <<Tile_index(args.zoom, args.tx, args.ty)>>]
    /\ UNCHANGED <<ndebug, cvt, test, args>>

TileFromLocation ==
    /\ test = "location"
    /\ ret.from_location = <<>>
    /\ ret' = [ret EXCEPT
                  !.from_location = <<Tile_location(args.zoom, args.location)>>]
    /\ Reconvert
    /\ UNCHANGED <<ndebug, test, args>>

\* the caller's own lonlat_to_mercator(location); for an invalid location
\* it throws and leaves no coordinates
LonLatToMercator ==
    /\ test = "location"
    /\ ret.coordinates = <<>>
    /\ Location_valid(args.location)
    /\ ret' = [ret EXCEPT !.coordinates = <<lonlat_to_mercator(args.location)>>]
    /\ UNCHANGED <<ndebug, cvt, test, args>>

\* the coordinates the caller has: those passed, or those converted
Coordinates_at_hand ==
    IF test = "coordinates" THEN <<args.coordinates>>
    ELSE IF test = "location" THEN ret.coordinates
    ELSE <<>>

TileFromCoordinates ==
    /\ Coordinates_at_hand # <<>>
    /\ ret.from_coordinates = <<>>
    /\ ret' = [ret EXCEPT !.from_coordinates =
                  <<Tile_coordinates(args.zoom, Coordinates_at_hand[1])>>]
    /\ Reconvert
    /\ UNCHANGED <<ndebug, test, args>>

Valid ==
    /\ test = "valid"
    /\ ret.valid = <<>>
    /\ ret' = [ret EXCEPT !.valid = <<Tile_valid(args.tile)>>,
                          !.shifts = Tile_valid_shifts(args.tile)]
    /\ UNCHANGED <<ndebug, cvt, test, args>>

\* each of these compares every pair of the three tiles, as a matrix
OperatorEq ==
    /\ test = "order"
    /\ ret.eq = <<>>
    /\ ret' = [ret EXCEPT !.eq = <<[i \in 1..3 |-> [j \in 1..3 |->
                      operator_eq(args.tiles[i], args.tiles[j])]]>>]
    /\ UNCHANGED <<ndebug, cvt, test, args>>

OperatorNe ==
    /\ test = "order"
    /\ ret.ne = <<>>
    /\ ret' = [ret EXCEPT !.ne = <<[i \in 1..3 |-> [j \in 1..3 |->
                      operator_ne(args.tiles[i], args.tiles[j])]]>>]
    /\ UNCHANGED <<ndebug, cvt, test, args>>

OperatorLt ==
    /\ test = "order"
    /\ ret.lt = <<>>
    /\ ret' = [ret EXCEPT !.lt = <<[i \in 1..3 |-> [j \in 1..3 |->
                      operator_lt(args.tiles[i], args.tiles[j])]]>>]
    /\ UNCHANGED <<ndebug, cvt, test, args>>

Next ==
    \/ NumTilesInZoom
    \/ TileExtentInZoom
    \/ MercxToTilex
    \/ MercyToTiley
    \/ TileFromIndex
    \/ TileFromLocation
    \/ LonLatToMercator
    \/ TileFromCoordinates
    \/ Valid
    \/ OperatorEq
    \/ OperatorNe
    \/ OperatorLt

Spec == Init /\ [][Next]_vars

(***************************************************************************)
(* What the claims speak of.                                               *)
(***************************************************************************)
\* zoom is one of the levels 0..30
ZoomInRange(zoom) == WLe(zoom, U32(max_zoom))

\* 2^zoom as an unbounded number, for zoom in 0..30
TwoTo(zoom) == WOfNat(2^U32Val(zoom))

\* -1, 0 or 1 for a negative, zero or positive double that is no NaN
DblSign(a) == IF IsZero(a) THEN 0 ELSE IF a.neg THEN -1 ELSE 1

\* |a| < |b| for nonzero a, b that are no NaN (significands are normalised)
MagLt(a, b) ==
    IF a.cls = "inf" THEN FALSE
    ELSE IF b.cls = "inf" THEN TRUE
    ELSE a.e < b.e \/ (a.e = b.e /\ WLt(a.m, b.m))

\* a < b on doubles (false when either is a NaN)
DblLt(a, b) ==
    IF a.cls = "nan" \/ b.cls = "nan" THEN FALSE
    ELSE IF DblSign(a) # DblSign(b) THEN DblSign(a) < DblSign(b)
    ELSE IF DblSign(a) = 0 THEN FALSE
    ELSE IF DblSign(a) = 1 THEN MagLt(a, b) ELSE MagLt(b, a)

DblLe(a, b) == a.cls # "nan" /\ b.cls # "nan" /\ ~DblLt(b, a)

\* d lies within the projection bounds [-max_coordinate, +max_coordinate]
InBounds(d) ==
    /\ DblLe(DblNeg(max_coordinate_epsg3857), d)
    /\ DblLe(d, max_coordinate_epsg3857)

\* the samples i, j are within the bounds and Xs[i] <= Xs[j]
OrderedInBounds(i, j) ==
    InBounds(Xs[i]) /\ InBounds(Xs[j]) /\ DblLe(Xs[i], Xs[j])

\* the script calls f (mercx_to_tilex or mercy_to_tiley) at a zoom in 0..30
Calls(f) == test = f /\ ZoomInRange(args.zoom)

\* C1: for every zoom in 0..30 and every x, also far beyond the bounds,
\* mercx_to_tilex(zoom, x) is in [0, num_tiles_in_zoom(zoom) - 1] and the
\* conversion to int32_t inside it does not overflow.
C1_ClampedWithoutOverflow ==
    Calls("mercx") =>
        \A i \in 1..Len(ret.calls) :
            /\ WLt(ret.calls[i].tile, TwoTo(args.zoom))
            /\ ret.calls[i].defined

\* C2: for every zoom in 0..30, mercx_to_tilex gives 0 at x = -max_coordinate
\* and num_tiles_in_zoom(zoom) - 1 at x = +max_coordinate; mercy_to_tiley
\* gives 0 at y = +max_coordinate and num_tiles_in_zoom(zoom) - 1 at
\* y = -max_coordinate.
C2_Boundaries ==
    LET first == U32(0)
        last  == WSub(TwoTo(args.zoom), WOne)
        low   == DblNeg(max_coordinate_epsg3857)
        high  == max_coordinate_epsg3857
    IN  /\ Calls("mercx") =>
            \A i \in 1..Len(ret.calls) :
                /\ Xs[i] = low  => ret.calls[i].tile = first
                /\ Xs[i] = high => ret.calls[i].tile = last
        /\ Calls("mercy") =>
            \A i \in 1..Len(ret.calls) :
                /\ Xs[i] = high => ret.calls[i].tile = first
                /\ Xs[i] = low  => ret.calls[i].tile = last

\* both bounds passed to mercy_to_tiley at zoom 30: tiles 0 and 2^30 - 1
C2_Witness ==
    /\ test = "mercy" /\ args.zoom = U32(max_zoom)
    /\ \E i, j \in 1..Len(ret.calls) :
           /\ Xs[i] = max_coordinate_epsg3857
           /\ ret.calls[i].tile = U32(0)
           /\ Xs[j] = DblNeg(max_coordinate_epsg3857)
           /\ ret.calls[j].tile = U32(2^max_zoom - 1)

\* C3: for every zoom in 0..30 and x1 <= x2 within the bounds,
\* mercx_to_tilex(zoom, x1) <= mercx_to_tilex(zoom, x2), and both are in
\* [0, num_tiles_in_zoom(zoom) - 1].
C3_MercxMonotone ==
    Calls("mercx") =>
        \A i, j \in 1..Len(ret.calls) :
            OrderedInBounds(i, j) =>
                /\ WLe(ret.calls[i].tile, ret.calls[j].tile)
                /\ WLt(ret.calls[i].tile, TwoTo(args.zoom))
                /\ WLt(ret.calls[j].tile, TwoTo(args.zoom))

\* two neighbouring doubles below the upper bound fall into different
\* columns at zoom 30, the smaller into the lower column
C3_Witness ==
    /\ Calls("mercx") /\ args.zoom = U32(max_zoom)
    /\ \E i, j \in 1..Len(ret.calls) :
           /\ Xs[i] = JustBelowMax /\ Xs[j] = max_coordinate_epsg3857
           /\ WLt(U32(0), ret.calls[i].tile)
           /\ WLe(ret.calls[i].tile, ret.calls[j].tile)

\* C4: for every zoom in 0..30 and y1 <= y2 within the bounds,
\* mercy_to_tiley(zoom, y1) >= mercy_to_tiley(zoom, y2), and both are in
\* [0, num_tiles_in_zoom(zoom) - 1].
C4_MercyAntitone ==
    Calls("mercy") =>
        \A i, j \in 1..Len(ret.calls) :
            OrderedInBounds(i, j) =>
                /\ WLe(ret.calls[j].tile, ret.calls[i].tile)
                /\ WLt(ret.calls[i].tile, TwoTo(args.zoom))
                /\ WLt(ret.calls[j].tile, TwoTo(args.zoom))

\* half the bound is in a row strictly above that of minus half the bound
C4_Witness ==
    /\ Calls("mercy") /\ args.zoom = U32(max_zoom)
    /\ \E i, j \in 1..Len(ret.calls) :
           /\ Xs[i] = DblNeg(Halved(1)) /\ Xs[j] = Halved(1)
           /\ WLt(ret.calls[j].tile, ret.calls[i].tile)

\* C8: for every zoom in 0..30, num_tiles_in_zoom(zoom) is 2^zoom (no
\* wrap-around in uint32_t), and num_tiles_in_zoom(zoom) - 1 as the int32_t
\* upper bound of the clamp is 2^zoom - 1, which is not negative.
C8_NumTiles ==
    /\ (test = "extent" /\ ZoomInRange(args.zoom) /\ ret.num_tiles # <<>>) =>
           ret.num_tiles[1] = TwoTo(args.zoom)
    /\ (Calls("mercx") \/ Calls("mercy")) =>
           \A i \in 1..Len(ret.calls) :
               /\ ret.calls[i].num_tiles = TwoTo(args.zoom)
               /\ ret.calls[i].max >= 0
               /\ ret.calls[i].max = 2^U32Val(args.zoom) - 1

\* a call at zoom 30 saw 2^30 tiles and clamped to 2^30 - 1
C8_Witness ==
    /\ test = "mercx" /\ args.zoom = U32(max_zoom)
    /\ Len(ret.calls) > 0
    /\ ret.calls[1].num_tiles = <<8, 0>>
    /\ ret.calls[1].max = 1073741823

\* C5: valid() is true exactly when z <= 30, x < 2^z and y < 2^z; for a
\* tile with x = num_tiles_in_zoom(z) and for one with z > 30 it is false,
\* and for z > 30 no shift by z is evaluated.
C5_ValidIff ==
    (test = "valid" /\ ret.valid # <<>>) =>
        LET t == args.tile
        IN  /\ ret.valid[1] = (/\ ZoomInRange(t.z)
                               /\ WLt(t.x, TwoTo(t.z))
                               /\ WLt(t.y, TwoTo(t.z)))
            /\ ~ZoomInRange(t.z) => ret.shifts = {}

\* the tile (x, y, z) = (0, 0, 31) was found invalid without a shift
C5_Witness ==
    /\ test = "valid"
    /\ args.tile = [x |-> U32(0), y |-> U32(0), z |-> U32(max_zoom + 1)]
    /\ ret.valid = <<FALSE>>
    /\ ret.shifts = {}

\* a before b in the lexicographic order on (z, x, y)
LexLess(a, b) ==
    \/ WLt(a.z, b.z)
    \/ a.z = b.z /\ WLt(a.x, b.x)
    \/ a.z = b.z /\ a.x = b.x /\ WLt(a.y, b.y)

\* C6: operator< is the lexicographic order on (z, x, y), irreflexive and
\* transitive, with exactly one of a < b, a == b, b < a for any two tiles;
\* a == b exactly when x, y and z all match, and a != b is its negation.
C6_StrictTotalOrder ==
    (test = "order" /\ ret.lt # <<>> /\ ret.eq # <<>> /\ ret.ne # <<>>) =>
        LET t  == args.tiles
            lt == ret.lt[1]
            eq == ret.eq[1]
            ne == ret.ne[1]
        IN  \A i, j, k \in 1..3 :
                /\ lt[i][j] = LexLess(t[i], t[j])
                /\ ~lt[i][i]
                /\ (lt[i][j] /\ lt[j][k]) => lt[i][k]
                /\ lt[i][j] \/ eq[i][j] \/ lt[j][i]
                /\ ~(lt[i][j] /\ eq[i][j])
                /\ ~(lt[i][j] /\ lt[j][i])
                /\ eq[i][j] = (t[i].x = t[j].x /\ t[i].y = t[j].y /\ t[i].z = t[j].z)
                /\ ne[i][j] = ~eq[i][j]

\* Tile(1, 0, 0) < Tile(2, 0, 0) < Tile(2, 0, 1), compared all ways
C6_Witness ==
    /\ test = "order"
    /\ args.tiles = << [x |-> U32(0), y |-> U32(0), z |-> U32(1)],
                       [x |-> U32(0), y |-> U32(0), z |-> U32(2)],
                       [x |-> U32(0), y |-> U32(1), z |-> U32(2)] >>
    /\ ret.lt # <<>> /\ ret.eq # <<>> /\ ret.ne # <<>>
    /\ ret.lt[1][1][2] /\ ret.lt[1][2][3] /\ ret.lt[1][1][3]
    /\ ret.ne[1][1][3] /\ ret.eq[1][2][2]

\* C7: for every zoom in 0..30 and every valid location, Tile(zoom, location)
\* has the same x, y and z as Tile(zoom, lonlat_to_mercator(location)).
C7_SameTileBothWays ==
    (/\ test = "location"
     /\ ZoomInRange(args.zoom) /\ Location_valid(args.location)
     /\ ret.from_location # <<>> /\ ret.from_coordinates # <<>>) =>
        /\ ret.from_location[1].status = "returned"
        /\ ret.from_coordinates[1].status = "returned"
        /\ ret.from_location[1].tile = ret.from_coordinates[1].tile

\* the documented preconditions of the three constructors
PreIndex ==
    /\ ZoomInRange(args.zoom)
    /\ WLt(args.tx, TwoTo(args.zoom))
    /\ WLt(args.ty, TwoTo(args.zoom))

PreLocation == Location_valid(args.location) /\ ZoomInRange(args.zoom)

PreCoordinates ==
    Coordinates_valid(Coordinates_at_hand[1]) /\ ZoomInRange(args.zoom)

\* C9: with assertions enabled, each constructor aborts when its documented
\* precondition is violated (zoom > 30; x or y >= 2^zoom for the index form;
\* an invalid location; invalid coordinates) and returns no tile then.
C9_DebugAborts ==
    ~ndebug =>
        /\ (test = "index" /\ ret.from_index # <<>> /\ ~PreIndex) =>
               ret.from_index[1] = Aborted
        /\ (test = "location" /\ ret.from_location # <<>> /\ ~PreLocation) =>
               ret.from_location[1] = Aborted
        /\ (/\ test \in {"location", "coordinates"}
            /\ ret.from_coordinates # <<>> /\ ~PreCoordinates) =>
               ret.from_coordinates[1] = Aborted

\* the call returned a tile that satisfies valid() and has the zoom given
ValidTile(call) ==
    /\ call.status = "returned"
    /\ Tile_valid(call.tile[1])
    /\ call.tile[1].z = args.zoom
    /\ WLt(call.tile[1].x, TwoTo(args.zoom))
    /\ WLt(call.tile[1].y, TwoTo(args.zoom))

CoordinatesInBounds(c) == InBounds(c.x) /\ InBounds(c.y)

\* C10: every tile a constructor produces with its preconditions met (zoom
\* <= 30; indices below 2^zoom; coordinates within the projection bounds)
\* satisfies valid(), z being the zoom given and x, y below 2^z.
C10_ConstructedValid ==
    /\ (test = "index" /\ ret.from_index # <<>> /\ PreIndex) =>
           ValidTile(ret.from_index[1])
    /\ (/\ test = "location" /\ ret.from_location # <<>> /\ PreLocation
        /\ CoordinatesInBounds(lonlat_to_mercator(args.location))) =>
           ValidTile(ret.from_location[1])
    /\ (/\ test \in {"location", "coordinates"}
        /\ ret.from_coordinates # <<>> /\ PreCoordinates
        /\ CoordinatesInBounds(Coordinates_at_hand[1])) =>
           ValidTile(ret.from_coordinates[1])

\* the upper right corner of the projection at zoom 30: the tile
\* (2^30 - 1, 0, 30)
C10_Witness ==
    /\ test = "coordinates"
    /\ args = [zoom |-> U32(max_zoom),
               coordinates |-> [x |-> max_coordinate_epsg3857,
                                y |-> max_coordinate_epsg3857]]
    /\ ret.from_coordinates =
           <<Returned([x |-> U32(2^max_zoom - 1), y |-> U32(0),
                       z |-> U32(max_zoom)])>>

=============================================================================
